---- MODULE Spec2Model ----
(***************************************************************************)
(* CIP-64 (type 0x7b) transaction codec of the Celo fork of ethers.js.     *)
(*                                                                         *)
(* src/src.ts/chain/celo.ts is the stand-alone variant (Cip64Transaction   *)
(* with a static parseCip64, and the celoAlfajores hooks); the second      *)
(* source file is the plugin variant (CeloTransactionPlugin and            *)
(* CeloRpcInterceptorPlugin).  Both are modelled; where they agree         *)
(* line for line (the Cip64Transaction class) one definition serves both.  *)
(*                                                                         *)
(* Values.  A byte string (Uint8Array, or a normalised "0x.." hex string)  *)
(* is a sequence of 0..255.  An address STRING is a record [form, bytes]:  *)
(* form says how the text is written ("checksum", "lower", "badsum" for a  *)
(* mixed-case text whose checksum is wrong, "null" for null / undefined /  *)
(* ""), bytes are the bytes its hex digits denote.  A number that may be   *)
(* null is an integer, Null standing for null / undefined.                 *)
(***************************************************************************)
EXTENDS Integers, Sequences, FiniteSets, TLC

CIP_64_TYPE_NUMBER == 123

Null == -1
Undefined == -2

\* ------------------------------------------------------------------------
\* Bounds of the model
\* ------------------------------------------------------------------------
\* longest top-level field list of a hand-made payload given to the parser
MaxFields == 14
\* most storage keys in one access-list entry of an input field set
MaxKeys == 1
\* most bytes of call data in an input field set
MaxDataLen == 2

\* ------------------------------------------------------------------------
\* Bytes and numbers (utils/maths.ts, utils/data.ts)
\* ------------------------------------------------------------------------
RECURSIVE toBeArray(_)
\* minimal big-endian bytes of a non-negative number; 0 is the empty string
toBeArray(n) ==
    IF n = 0 THEN << >> ELSE Append(toBeArray(n \div 256), n % 256)

RECURSIVE unarrayifyInteger(_)
\* the number a big-endian byte string denotes (leading zeros allowed)
unarrayifyInteger(bytes) ==
    IF bytes = << >> THEN 0
    ELSE unarrayifyInteger(SubSeq(bytes, 1, Len(bytes) - 1)) * 256 + bytes[Len(bytes)]

RECURSIVE stripZeros(_)
\* toBeArray applied to a hex string: the string's number, minimally encoded
stripZeros(bytes) ==
    IF bytes = << >> THEN << >>
    ELSE IF bytes[1] = 0 THEN stripZeros(Tail(bytes)) ELSE bytes

Zeros(n) == [i \in 1..n |-> 0]

\* F(v), with v computed once
With(v, F(_)) == CHOOSE r \in {F(x) : x \in {v}} : TRUE

\* zeroPadValue(data, length): left-pad; fails when data is longer
zeroPadValue(bytes, n) ==
    IF Len(bytes) > n THEN [ok |-> FALSE, bytes |-> << >>]
    ELSE [ok |-> TRUE, bytes |-> Zeros(n - Len(bytes)) \o bytes]

\* keccak256 is collision-free as far as the model goes: the digest of a
\* byte string is the byte string under a tag.
keccak256(bytes) == [keccak |-> bytes]
NoHash == [keccak |-> <<-1>>]

\* ------------------------------------------------------------------------
\* RLP (utils/rlp-encode.ts, utils/rlp-decode.ts)
\* ------------------------------------------------------------------------
\* An RLP object is a byte string or a list of RLP objects.
B(bytes) == [isList |-> FALSE, bytes |-> bytes, items |-> << >>]
L(items) == [isList |-> TRUE, bytes |-> << >>, items |-> items]

RECURSIVE _encode(_)
RECURSIVE _encodeAll(_)
_encodeAll(items) ==
    IF items = << >> THEN << >> ELSE _encode(Head(items)) \o _encodeAll(Tail(items))

_encode(object) ==
    IF object.isList
    THEN LET payload == _encodeAll(object.items) IN
         IF Len(payload) <= 55 THEN <<192 + Len(payload)>> \o payload
         ELSE LET length == toBeArray(Len(payload)) IN
              <<247 + Len(length)>> \o length \o payload
    ELSE LET data == object.bytes IN
         IF Len(data) = 1 /\ data[1] <= 127 THEN data
         ELSE IF Len(data) <= 55 THEN <<128 + Len(data)>> \o data
         ELSE LET length == toBeArray(Len(data)) IN
              <<183 + Len(length)>> \o length \o data

encodeRlp(object) == _encode(object)

RlpFail == [ok |-> FALSE, consumed |-> 0, result |-> B(<< >>)]

\* data.slice(from, to) with 0-based offsets
Slice(data, from, to) == SubSeq(data, from + 1, to)

RECURSIVE _decode(_, _)
RECURSIVE _decodeChildren(_, _, _, _)
\* the while loop of _decodeChildren: children from childOffset up to end
_decodeChildren(data, childOffset, end, acc) ==
    IF childOffset >= end THEN [ok |-> TRUE, items |-> acc]
    ELSE LET decoded == _decode(data, childOffset) IN
         IF ~decoded.ok THEN [ok |-> FALSE, items |-> << >>]
         ELSE IF childOffset + decoded.consumed > end THEN [ok |-> FALSE, items |-> << >>]
         ELSE _decodeChildren(data, childOffset + decoded.consumed, end,
                              Append(acc, decoded.result))

_decode(data, offset) ==
    IF Len(data) = 0 \/ offset >= Len(data) THEN RlpFail
    ELSE LET b == data[offset + 1] IN
    IF b >= 248 THEN
        LET lengthLength == b - 247 IN
        IF offset + 1 + lengthLength > Len(data) THEN RlpFail
        ELSE LET length == unarrayifyInteger(Slice(data, offset + 1, offset + 1 + lengthLength)) IN
             IF offset + 1 + lengthLength + length > Len(data) THEN RlpFail
             ELSE LET ch == _decodeChildren(data, offset + 1 + lengthLength,
                                            offset + 1 + lengthLength + length, << >>) IN
                  IF ch.ok THEN [ok |-> TRUE, consumed |-> 1 + lengthLength + length,
                                 result |-> L(ch.items)]
                  ELSE RlpFail
    ELSE IF b >= 192 THEN
        LET length == b - 192 IN
        IF offset + 1 + length > Len(data) THEN RlpFail
        ELSE LET ch == _decodeChildren(data, offset + 1, offset + 1 + length, << >>) IN
             IF ch.ok THEN [ok |-> TRUE, consumed |-> 1 + length, result |-> L(ch.items)]
             ELSE RlpFail
    ELSE IF b >= 184 THEN
        LET lengthLength == b - 183 IN
        IF offset + 1 + lengthLength > Len(data) THEN RlpFail
        ELSE LET length == unarrayifyInteger(Slice(data, offset + 1, offset + 1 + lengthLength)) IN
             IF offset + 1 + lengthLength + length > Len(data) THEN RlpFail
             ELSE [ok |-> TRUE, consumed |-> 1 + lengthLength + length,
                   result |-> B(Slice(data, offset + 1 + lengthLength,
                                      offset + 1 + lengthLength + length))]
    ELSE IF b >= 128 THEN
        LET length == b - 128 IN
        IF offset + 1 + length > Len(data) THEN RlpFail
        ELSE [ok |-> TRUE, consumed |-> 1 + length,
              result |-> B(Slice(data, offset + 1, offset + 1 + length))]
    ELSE [ok |-> TRUE, consumed |-> 1, result |-> B(<<b>>)]

\* decodeRlp: the whole input must be one object
decodeRlp(data) ==
    LET decoded == _decode(data, 0) IN
    IF decoded.ok /\ decoded.consumed = Len(data)
    THEN [ok |-> TRUE, result |-> decoded.result]
    ELSE [ok |-> FALSE, result |-> B(<< >>)]

\* ------------------------------------------------------------------------
\* Addresses (address/address.ts)
\* ------------------------------------------------------------------------
NoAddr == [form |-> "null", bytes |-> << >>]
Checksum(bytes) == [form |-> "checksum", bytes |-> bytes]
Lower(bytes) == [form |-> "lower", bytes |-> bytes]

\* getAddress: accepts a 40-digit hex text that is all of one case or whose
\* checksum is right, and returns the checksummed text; throws otherwise
getAddress(value) ==
    IF value.form \in {"checksum", "lower"} /\ Len(value.bytes) = 20
    THEN [ok |-> TRUE, value |-> Checksum(value.bytes)]
    ELSE [ok |-> FALSE, value |-> NoAddr]

\* ------------------------------------------------------------------------
\* Signature (crypto/signature.ts)
\* ------------------------------------------------------------------------
NoSig == [isNull |-> TRUE, yParity |-> 0, r |-> << >>, s |-> << >>]
Sig(yParity, r, s) == [isNull |-> FALSE, yParity |-> yParity, r |-> r, s |-> s]

\* Signature.from: r and s are 32 bytes, s has its top bit clear
SignatureFrom(sig) ==
    IF /\ ~sig.isNull
       /\ sig.yParity \in {0, 1}
       /\ Len(sig.r) = 32
       /\ Len(sig.s) = 32
       /\ sig.s[1] < 128
    THEN [ok |-> TRUE, value |-> sig]
    ELSE [ok |-> FALSE, value |-> NoSig]

\* ------------------------------------------------------------------------
\* Helpers of transaction/transaction.ts and transaction/accesslist.ts
\* ------------------------------------------------------------------------
NoData == <<-1>>
NoList == [isNull |-> TRUE, list |-> << >>]
List(l) == [isNull |-> FALSE, list |-> l]

\* formatNumber(value, name): toBeArray(getUint(value))
formatNumber(value) == toBeArray(value)

\* handleUint / handleNumber: "0x" is 0, any other byte string is the number
\* it denotes; a nested list is no number
handleUint(item) ==
    IF item.isList \/ Len(item.bytes) > 32 THEN [ok |-> FALSE, value |-> 0]
    ELSE [ok |-> TRUE, value |-> unarrayifyInteger(item.bytes)]

handleNumber(item) ==
    IF item.isList \/ Len(item.bytes) > 6 THEN [ok |-> FALSE, value |-> 0]
    ELSE [ok |-> TRUE, value |-> unarrayifyInteger(item.bytes)]

\* handleAddress: "0x" is null, anything else goes through getAddress
handleAddress(item) ==
    IF item.isList THEN [ok |-> FALSE, value |-> NoAddr]
    ELSE IF item.bytes = << >> THEN [ok |-> TRUE, value |-> NoAddr]
    ELSE getAddress(Lower(item.bytes))

\* hexlify of a decoded element
hexlify(item) ==
    IF item.isList THEN [ok |-> FALSE, value |-> << >>]
    ELSE [ok |-> TRUE, value |-> item.bytes]

\* formatAccessList: [ [address, [key, ...]], ... ]
formatAccessList(list) ==
    L([i \in 1..Len(list) |->
        L(<< B(list[i].address.bytes),
             L([k \in 1..Len(list[i].storageKeys) |-> B(list[i].storageKeys[k])]) >>)])

\* accessSetify on a decoded pair: a 20-byte address and 32-byte keys
AccessSetOk(set) ==
    /\ set.isList
    /\ Len(set.items) = 2
    /\ ~set.items[1].isList
    /\ Len(set.items[1].bytes) = 20
    /\ set.items[2].isList
    /\ \A k \in 1..Len(set.items[2].items) :
          /\ ~set.items[2].items[k].isList
          /\ Len(set.items[2].items[k].bytes) = 32

\* handleAccessList: accessListify, any failure becoming an argument error
handleAccessList(item) ==
    IF item.isList /\ \A i \in 1..Len(item.items) : AccessSetOk(item.items[i])
    THEN [ok |-> TRUE,
          value |-> List([i \in 1..Len(item.items) |->
                      [address |-> Checksum(item.items[i].items[1].bytes),
                       storageKeys |-> [k \in 1..Len(item.items[i].items[2].items) |->
                                          item.items[i].items[2].items[k].bytes]]])]
    ELSE [ok |-> FALSE, value |-> NoList]

\* parseEipSignature(tx, fields): yParity must be 0 or 1, r and s are
\* left-padded to 32 bytes and handed to Signature.from
parseEipSignature(fields) ==
    LET yParity == handleNumber(fields[1])
        r == IF fields[2].isList THEN zeroPadValue(Zeros(33), 32)
             ELSE zeroPadValue(fields[2].bytes, 32)
        s == IF fields[3].isList THEN zeroPadValue(Zeros(33), 32)
             ELSE zeroPadValue(fields[3].bytes, 32)
    IN  IF ~yParity.ok \/ yParity.value \notin {0, 1}
        THEN [ok |-> FALSE, err |-> "invalid yParity", value |-> NoSig]
        ELSE IF ~r.ok \/ ~s.ok
        THEN [ok |-> FALSE, err |-> "padding exceeds data length", value |-> NoSig]
        ELSE LET sig == SignatureFrom(Sig(yParity.value, r.bytes, s.bytes)) IN
             IF sig.ok THEN [ok |-> TRUE, err |-> "", value |-> sig.value]
             ELSE [ok |-> FALSE, err |-> "invalid signature", value |-> NoSig]

\* ------------------------------------------------------------------------
\* Field sets (TransactionLike / CeloTransactionLike) and instances
\* ------------------------------------------------------------------------
NoCustomData == [present |-> FALSE, feeCurrency |-> NoAddr]
CustomData(fc) == [present |-> TRUE, feeCurrency |-> fc]

\* a field set with nothing in it
NoFields ==
    [type |-> Undefined, chainId |-> Null, nonce |-> Null,
     maxPriorityFeePerGas |-> Null, maxFeePerGas |-> Null, gasPrice |-> Null,
     gasLimit |-> Null, to |-> NoAddr, value |-> Null, data |-> NoData,
     accessList |-> NoList, feeCurrency |-> NoAddr, customData |-> NoCustomData,
     hash |-> NoHash, signature |-> NoSig]

\* new Transaction(): the defaults of the base class constructor, and the
\* initial value of #feeCurrency ("" in celo.ts, undefined in the plugin
\* variant: neither is an address)
NewCip64Transaction(id) ==
    [id |-> id, chainId |-> 0, nonce |-> 0,
     maxPriorityFeePerGas |-> Null, maxFeePerGas |-> Null, gasPrice |-> Null,
     gasLimit |-> 0, to |-> NoAddr, value |-> 0, data |-> << >>,
     accessList |-> NoList, feeCurrency |-> NoAddr, signature |-> NoSig]

\* x || 0
OrZero(x) == IF x = Null THEN 0 ELSE x

\* ------------------------------------------------------------------------
\* class Cip64Transaction
\* ------------------------------------------------------------------------
Bytes(b) == [ok |-> TRUE, err |-> "", bytes |-> b]
Throw(e) == [ok |-> FALSE, err |-> e, bytes |-> << >>]

\* serializeFields with the two fee fields in each other's place
serializeFields_feesSwapped(this, feeCurrency) ==
    << B(formatNumber(OrZero(this.chainId))),
       B(formatNumber(OrZero(this.nonce))),
       B(formatNumber(OrZero(this.maxFeePerGas))),
       B(formatNumber(OrZero(this.maxPriorityFeePerGas))),
       B(formatNumber(OrZero(this.gasLimit))),
       (IF this.to # NoAddr THEN B(getAddress(this.to).value.bytes) ELSE B(<< >>)),
       B(formatNumber(OrZero(this.value))),
       B(IF this.data = NoData THEN << >> ELSE this.data),
       formatAccessList(IF this.accessList.isNull THEN << >> ELSE this.accessList.list),
       B(feeCurrency.bytes) >>

\* the ten fields of serialize, in order; the last one is getAddress(feeCurrency)
serializeFields(this, feeCurrency) ==
    << B(formatNumber(OrZero(this.chainId))),
       B(formatNumber(OrZero(this.nonce))),
       B(formatNumber(OrZero(this.maxPriorityFeePerGas))),
       B(formatNumber(OrZero(this.maxFeePerGas))),
       B(formatNumber(OrZero(this.gasLimit))),
       (IF this.to # NoAddr THEN B(getAddress(this.to).value.bytes) ELSE B(<< >>)),
       B(formatNumber(OrZero(this.value))),
       B(IF this.data = NoData THEN << >> ELSE this.data),
       formatAccessList(IF this.accessList.isNull THEN << >> ELSE this.accessList.list),
       B(feeCurrency.bytes) >>

\* serialize treating an unset fee currency the way it treats an unset `to`
serialize_defaultFee(this, signature) ==
    LET fields == serializeFields(this, IF getAddress(this.feeCurrency).ok
                                        THEN getAddress(this.feeCurrency).value ELSE NoAddr)
        all == IF ~signature.isNull
               THEN fields \o << B(formatNumber(signature.yParity)),
                                 B(stripZeros(signature.r)),
                                 B(stripZeros(signature.s)) >>
               ELSE fields
    IN  Bytes(<<CIP_64_TYPE_NUMBER>> \o encodeRlp(L(all)))

\* private serialize(signature?)
serialize(this, signature) ==
    LET feeCurrency == getAddress(this.feeCurrency) IN
    IF ~feeCurrency.ok THEN Throw("invalid address")
    ELSE LET fields == serializeFields(this, feeCurrency.value)
             all == IF ~signature.isNull
                    THEN fields \o << B(formatNumber(signature.yParity)),
                                      B(stripZeros(signature.r)),
                                      B(stripZeros(signature.s)) >>
                    ELSE fields
         IN  Bytes(<<CIP_64_TYPE_NUMBER>> \o encodeRlp(L(all)))

\* get unsignedSerialized()
unsignedSerialized(this) == serialize(this, NoSig)

\* serialized without its assertion
serialized_noAssert(this) == serialize(this, this.signature)

\* get serialized()
serialized(this) ==
    IF this.signature.isNull THEN Throw("UNSUPPORTED_OPERATION")
    ELSE serialize(this, this.signature)

\* the setter storing the text as given
setFeeCurrency_raw(this, value) ==
    IF value # NoAddr THEN [ok |-> TRUE, err |-> "", this |-> [this EXCEPT !.feeCurrency = value]]
    ELSE [ok |-> FALSE, err |-> "invalid address", this |-> this]

\* set feeCurrency(value)
setFeeCurrency(this, value) ==
    LET a == getAddress(value) IN
    IF a.ok THEN [ok |-> TRUE, err |-> "", this |-> [this EXCEPT !.feeCurrency = a.value]]
    ELSE [ok |-> FALSE, err |-> "invalid address", this |-> this]

Parsed(tx) == [ok |-> TRUE, err |-> "", tx |-> tx]
ParseFail(e) == [ok |-> FALSE, err |-> e, tx |-> NoFields]

\* the count check letting every list of 13 or more pass
validFieldCount_atLeast13(fields) ==
    fields.isList /\ (Len(fields.items) = 10 \/ Len(fields.items) >= 13)

\* the condition of the assertArgument on the decoded value: an array of
\* exactly 10 or exactly 13 elements
validFieldCount(fields) ==
    fields.isList /\ (Len(fields.items) = 10 \/ Len(fields.items) = 13)

\* the signed tail hashing the RLP body without the type tag
parseSigned_hashOfBody(tx_, data, fields) ==
    LET sig == parseEipSignature(SubSeq(fields, 11, Len(fields))) IN
    IF ~sig.ok THEN ParseFail(sig.err)
    ELSE Parsed([tx_ EXCEPT !.hash = keccak256(Slice(data, 1, Len(data))),
                            !.signature = sig.value])

\* the signed tail of parseCip64: the hash of all of `data`, then the
\* signature from the elements after the tenth
parseSigned(tx_, data, fields) ==
    LET sig == parseEipSignature(SubSeq(fields, 11, Len(fields))) IN
    IF ~sig.ok THEN ParseFail(sig.err)
    ELSE Parsed([tx_ EXCEPT !.hash = keccak256(data), !.signature = sig.value])

\* static parseCip64(data) of celo.ts
parseCip64(data) ==
    LET decoded == decodeRlp(Slice(data, 1, Len(data))) IN
    IF ~decoded.ok THEN ParseFail("BUFFER_OVERRUN")
    ELSE IF ~validFieldCount(decoded.result)
    THEN ParseFail("invalid field count")
    ELSE LET fields == decoded.result.items
             maxPriorityFeePerGas == handleUint(fields[3])
             maxFeePerGas == handleUint(fields[4])
             chainId == handleUint(fields[1])
             nonce == handleNumber(fields[2])
             gasLimit == handleUint(fields[5])
             to == handleAddress(fields[6])
             value == handleUint(fields[7])
             data_ == hexlify(fields[8])
             accessList == handleAccessList(fields[9])
             feeCurrency == handleAddress(fields[10])
         IN
         IF ~(/\ maxPriorityFeePerGas.ok /\ maxFeePerGas.ok /\ chainId.ok /\ nonce.ok
              /\ gasLimit.ok /\ to.ok /\ value.ok /\ data_.ok /\ accessList.ok
              /\ feeCurrency.ok)
         THEN ParseFail("INVALID_ARGUMENT")
         ELSE LET tx == [type |-> CIP_64_TYPE_NUMBER,
                         chainId |-> chainId.value,
                         nonce |-> nonce.value,
                         maxPriorityFeePerGas |-> maxPriorityFeePerGas.value,
                         maxFeePerGas |-> maxFeePerGas.value,
                         gasPrice |-> Null,
                         gasLimit |-> gasLimit.value,
                         to |-> to.value,
                         value |-> value.value,
                         data |-> data_.value,
                         accessList |-> accessList.value,
                         feeCurrency |-> feeCurrency.value,
                         customData |-> NoCustomData,
                         hash |-> NoHash,
                         signature |-> NoSig]
              IN
              IF Len(fields) = 10 THEN Parsed(tx)
              ELSE parseSigned(tx, data, fields)

\* private parseCip64(data) of CeloTransactionPlugin
plugin_parseCip64(data) ==
    LET decoded == decodeRlp(Slice(data, 1, Len(data))) IN
    IF ~decoded.ok THEN ParseFail("BUFFER_OVERRUN")
    ELSE IF ~validFieldCount(decoded.result)
    THEN ParseFail("invalid field count")
    ELSE LET fields == decoded.result.items
             maxPriorityFeePerGas == handleUint(fields[3])
             maxFeePerGas == handleUint(fields[4])
             chainId == handleUint(fields[1])
             nonce == handleNumber(fields[2])
             gasLimit == handleUint(fields[5])
             to == handleAddress(fields[6])
             value == handleUint(fields[7])
             data_ == hexlify(fields[8])
             accessList == handleAccessList(fields[9])
             feeCurrency == handleAddress(fields[10])
         IN
         IF ~(/\ maxPriorityFeePerGas.ok /\ maxFeePerGas.ok /\ chainId.ok /\ nonce.ok
              /\ gasLimit.ok /\ to.ok /\ value.ok /\ data_.ok /\ accessList.ok
              /\ feeCurrency.ok)
         THEN ParseFail("INVALID_ARGUMENT")
         ELSE LET tx == [type |-> CIP_64_TYPE_NUMBER,
                         chainId |-> chainId.value,
                         nonce |-> nonce.value,
                         maxPriorityFeePerGas |-> maxPriorityFeePerGas.value,
                         maxFeePerGas |-> maxFeePerGas.value,
                         gasPrice |-> Null,
                         gasLimit |-> gasLimit.value,
                         to |-> to.value,
                         value |-> value.value,
                         data |-> data_.value,
                         accessList |-> accessList.value,
                         feeCurrency |-> NoAddr,
                         customData |-> CustomData(feeCurrency.value),
                         hash |-> NoHash,
                         signature |-> NoSig]
              IN
              IF Len(fields) = 10 THEN Parsed(tx)
              ELSE parseSigned(tx, data, fields)

\* ------------------------------------------------------------------------
\* Construction from heterogeneous input
\* ------------------------------------------------------------------------
\* accessListify on the access list of a field set (setter of the base class)
accessListify(al) ==
    IF \A i \in 1..Len(al.list) :
          /\ getAddress(al.list[i].address).ok
          /\ \A k \in 1..Len(al.list[i].storageKeys) : Len(al.list[i].storageKeys[k]) = 32
    THEN [ok |-> TRUE,
          value |-> List([i \in 1..Len(al.list) |->
                      [address |-> getAddress(al.list[i].address).value,
                       storageKeys |-> al.list[i].storageKeys]])]
    ELSE [ok |-> FALSE, value |-> NoList]

\* what create was given: nothing, an instance, a string or a field set
FromEmpty == [kind |-> "empty", inst |-> NewCip64Transaction(0), raw |-> << >>, fields |-> NoFields]
FromInstance(t) == [kind |-> "instance", inst |-> t, raw |-> << >>, fields |-> NoFields]
FromString(raw) == [kind |-> "string", inst |-> NewCip64Transaction(0), raw |-> raw, fields |-> NoFields]
FromObject(f) == [kind |-> "object", inst |-> NewCip64Transaction(0), raw |-> << >>, fields |-> f]

\* what create returned: "cip64" a new Cip64Transaction, "same" the instance
\* it was given, "new Transaction" / "Transaction.from" the generic base
\* class (whose own behaviour is outside this component), "throw" an error
Made(kind, err, t) == [kind |-> kind, err |-> err, tx |-> t]

\* lines 145-161 of celo.ts (116-132 of the plugin): a new instance, the fee
\* currency assigned through the validating setter, then every field of
\* `from` that is not null copied through the setters of the base class
buildCip64(from, feeCurrency, id) ==
    LET t0 == setFeeCurrency(NewCip64Transaction(id), feeCurrency)
        to == getAddress(from.to)
        sig == SignatureFrom(from.signature)
        al == accessListify(from.accessList)
    IN  IF ~t0.ok THEN Made("throw", t0.err, NewCip64Transaction(id))
        ELSE IF from.to # NoAddr /\ ~to.ok
        THEN Made("throw", "invalid address", NewCip64Transaction(id))
        ELSE IF ~from.signature.isNull /\ ~sig.ok
        THEN Made("throw", "invalid signature", NewCip64Transaction(id))
        ELSE IF ~from.accessList.isNull /\ ~al.ok
        THEN Made("throw", "invalid access list", NewCip64Transaction(id))
        ELSE Made("cip64", "",
               [id |-> id,
                feeCurrency |-> t0.this.feeCurrency,
                to |-> IF from.to # NoAddr THEN to.value ELSE NoAddr,
                nonce |-> IF from.nonce # Null THEN from.nonce ELSE 0,
                gasLimit |-> IF from.gasLimit # Null THEN from.gasLimit ELSE 0,
                gasPrice |-> IF from.gasPrice # Null THEN from.gasPrice ELSE Null,
                maxPriorityFeePerGas |-> IF from.maxPriorityFeePerGas # Null
                                         THEN from.maxPriorityFeePerGas ELSE Null,
                maxFeePerGas |-> IF from.maxFeePerGas # Null THEN from.maxFeePerGas ELSE Null,
                data |-> IF from.data # NoData THEN from.data ELSE << >>,
                value |-> IF from.value # Null THEN from.value ELSE 0,
                chainId |-> IF from.chainId # Null THEN from.chainId ELSE 0,
                signature |-> IF ~from.signature.isNull THEN sig.value ELSE NoSig,
                accessList |-> IF ~from.accessList.isNull THEN al.value ELSE NoList])

\* the field-set branch not copying the nonce
createTransactionObject_dropsNonce(from, id) ==
    IF from.type = CIP_64_TYPE_NUMBER /\ from.feeCurrency # NoAddr
    THEN buildCip64([from EXCEPT !.nonce = Null], from.feeCurrency, id)
    ELSE Made("Transaction.from", "", NewCip64Transaction(id))

\* the field-set branch and the fallback of celoAlfajores.createTransaction
createTransactionObject(from, id) ==
    IF from.type = CIP_64_TYPE_NUMBER /\ from.feeCurrency # NoAddr
    THEN buildCip64(from, from.feeCurrency, id)
    ELSE Made("Transaction.from", "", NewCip64Transaction(id))

\* createTransaction handing back a copy of the instance that lost its
\* signature
createTransaction_unsignedCopy(from, id) ==
    IF from.kind = "empty" THEN Made("new Transaction", "", NewCip64Transaction(id))
    ELSE IF from.kind = "instance" THEN Made("same", "", [from.inst EXCEPT !.signature = NoSig])
    ELSE IF from.kind = "string"
    THEN IF Len(from.raw) > 0 /\ from.raw[1] = CIP_64_TYPE_NUMBER
         THEN With(parseCip64(from.raw),
                   LAMBDA p : IF ~p.ok THEN Made("throw", p.err, NewCip64Transaction(id))
                              ELSE createTransactionObject(p.tx, id))
         ELSE Made("Transaction.from", "", NewCip64Transaction(id))
    ELSE createTransactionObject(from.fields, id)

\* celoAlfajores.createTransaction(from)
createTransaction(from, id) ==
    IF from.kind = "empty" THEN Made("new Transaction", "", NewCip64Transaction(id))
    ELSE IF from.kind = "instance" THEN Made("same", "", from.inst)
    ELSE IF from.kind = "string"
    THEN IF Len(from.raw) > 0 /\ from.raw[1] = CIP_64_TYPE_NUMBER
         THEN With(parseCip64(from.raw),
                   LAMBDA p : IF ~p.ok THEN Made("throw", p.err, NewCip64Transaction(id))
                              ELSE createTransactionObject(p.tx, id))
         ELSE Made("Transaction.from", "", NewCip64Transaction(id))
    ELSE createTransactionObject(from.fields, id)

\* the field-set branch and the fallback of CeloTransactionPlugin.create
createObject(from, id) ==
    IF from.type = CIP_64_TYPE_NUMBER /\ from.customData.present
    THEN buildCip64(from, from.customData.feeCurrency, id)
    ELSE Made("Transaction.from", "", NewCip64Transaction(id))

\* CeloTransactionPlugin.create(from)
create(from, id) ==
    IF from.kind = "empty" THEN Made("new Transaction", "", NewCip64Transaction(id))
    ELSE IF from.kind = "instance" THEN Made("same", "", from.inst)
    ELSE IF from.kind = "string"
    THEN IF Len(from.raw) > 0 /\ from.raw[1] = CIP_64_TYPE_NUMBER
         THEN With(plugin_parseCip64(from.raw),
                   LAMBDA p : IF ~p.ok THEN Made("throw", p.err, NewCip64Transaction(id))
                              ELSE createObject(p.tx, id))
         ELSE Made("Transaction.from", "", NewCip64Transaction(id))
    ELSE createObject(from.fields, id)

\* ------------------------------------------------------------------------
\* Hooks on requests
\* ------------------------------------------------------------------------
\* a JSON-RPC request body: its method and the first element of its args
\* (an object with a `to` and possibly a feeCurrency); celo.ts admits null
NullRequest == [isNull |-> TRUE, method |-> "", to |-> NoAddr, feeCurrency |-> NoAddr]
Request(method, to, fc) == [isNull |-> FALSE, method |-> method, to |-> to, feeCurrency |-> fc]

\* a PerformActionRequest: its method and the transaction request it carries
Context(method, t) == [method |-> method, transaction |-> t]

\* getRpcRequest not looking at the request's method
getRpcRequest_anyMethod(request, context) ==
    IF /\ ~request.isNull
       /\ context.method = "estimateGas"
       /\ context.transaction.feeCurrency # NoAddr
    THEN [request EXCEPT !.feeCurrency = context.transaction.feeCurrency]
    ELSE request

\* celoAlfajores.getRpcRequest(request, context)
getRpcRequest(request, context) ==
    IF /\ ~request.isNull
       /\ request.method = "eth_estimateGas"
       /\ context.method = "estimateGas"
       /\ context.transaction.feeCurrency # NoAddr
    THEN [request EXCEPT !.feeCurrency = context.transaction.feeCurrency]
    ELSE request

\* CeloRpcInterceptorPlugin.intercept(request, context)
intercept(request, context) ==
    IF /\ request.method = "eth_estimateGas"
       /\ context.method = "estimateGas"
       /\ context.transaction.customData.present
       /\ context.transaction.customData.feeCurrency # NoAddr
    THEN [request EXCEPT !.feeCurrency = context.transaction.customData.feeCurrency]
    ELSE request

\* celoAlfajores.populateTransaction(tx): returns tx, its type set to 123
\* when it has a fee currency
populateTransaction(t) ==
    IF t.feeCurrency # NoAddr THEN [t EXCEPT !.type = CIP_64_TYPE_NUMBER] ELSE t

\* determineType satisfied with a customData bag, whatever is in it
determineType_anyCustomData(t) ==
    IF t.customData.present THEN CIP_64_TYPE_NUMBER ELSE t.type

\* CeloTransactionPlugin.determineType(tx)
determineType(t) ==
    IF t.customData.present /\ t.customData.feeCurrency # NoAddr
    THEN CIP_64_TYPE_NUMBER
    ELSE t.type

\* ------------------------------------------------------------------------
\* Input values
\* ------------------------------------------------------------------------
\* two 20-byte addresses (the first starts with a zero byte), a text of 19
\* bytes, two 32-byte storage keys, and the scalars of two signatures
A0 == [i \in 1..20 |-> i - 1]
A1 == [i \in 1..20 |-> 200 + i]
Short == [i \in 1..19 |-> 7]
K1 == [i \in 1..32 |-> i]
K2 == [i \in 1..32 |-> 255 - i]
R1 == <<0, 0>> \o [i \in 1..30 |-> 16 + i]
R2 == [i \in 1..32 |-> 170]
S1 == <<0>> \o [i \in 1..31 |-> 99]
S2 == <<127>> \o [i \in 1..31 |-> 255]
SHigh == [i \in 1..32 |-> 128]

BadSum(bytes) == [form |-> "badsum", bytes |-> bytes]

\* texts handed to the feeCurrency setter
AddressInputs == {Checksum(A1), Lower(A0), BadSum(A1), Lower(Short), NoAddr}

\* values handed to the signature setter of the base class
SignatureInputs == {Sig(1, R1, S1), Sig(0, R2, S2), Sig(0, R2, SHigh)}

\* byte strings of at most n bytes over two byte values, one below 0x80
RECURSIVE DataUpTo(_)
DataUpTo(n) ==
    IF n = 0 THEN {<< >>}
    ELSE LET shorter == DataUpTo(n - 1) IN
         shorter \cup {Append(d, b) : d \in {x \in shorter : Len(x) = n - 1}, b \in {0, 200}}

LongData == [i \in 1..56 |-> i]

\* access lists of one entry with up to n storage keys
KeysUpTo(n) == {[k \in 1..m |-> IF k % 2 = 1 THEN K1 ELSE K2] : m \in 0..n}

\* ------------------------------------------------------------------------
\* State
\* ------------------------------------------------------------------------
\* tx      the Cip64Transaction instance the caller holds
\* op      the operation called last ("new" after construction)
\* input   what it was given
\* output  what it returned or threw
VARIABLES tx, op, input, output

vars == <<tx, op, input, output>>

None == [ok |-> TRUE, err |-> ""]

Init ==
    /\ tx = NewCip64Transaction(0)
    /\ op = "new"
    /\ input = None
    /\ output = None

IsSigned(t) == ~t.signature.isNull

\* ------------------------------------------------------------------------
\* Operations on the instance
\* ------------------------------------------------------------------------
\* tx.feeCurrency = value
SetFeeCurrency ==
    \E value \in AddressInputs : \E r \in {setFeeCurrency(tx, value)} :
        /\ tx' = r.this
        /\ op' = "set feeCurrency"
        /\ input' = value
        /\ output' = [ok |-> r.ok, err |-> r.err]

\* tx.signature = value: the caller signs (setter of the base class, which
\* stores Signature.from(value))
SetSignature ==
    \E value \in SignatureInputs :
        LET sig == SignatureFrom(value) IN
        /\ tx' = IF sig.ok THEN [tx EXCEPT !.signature = sig.value] ELSE tx
        /\ op' = "set signature"
        /\ input' = value
        /\ output' = [ok |-> sig.ok, err |-> IF sig.ok THEN "" ELSE "invalid signature"]

\* tx.unsignedSerialized
GetUnsignedSerialized ==
    /\ op' = "unsignedSerialized"
    /\ input' = None
    /\ output' = unsignedSerialized(tx)
    /\ UNCHANGED tx

\* tx.serialized
GetSerialized ==
    /\ op' = "serialized"
    /\ input' = None
    /\ output' = serialized(tx)
    /\ UNCHANGED tx

HasBytes == op \in {"unsignedSerialized", "serialized"} /\ output.ok

\* Cip64Transaction.parseCip64(bytes) on the bytes just serialized
ParseCip64 ==
    /\ HasBytes
    /\ op' = "parseCip64"
    /\ input' = FromString(output.bytes)
    /\ output' = parseCip64(output.bytes)
    /\ UNCHANGED tx

\* the plugin's parseCip64 on the bytes just serialized
PluginParseCip64 ==
    /\ HasBytes
    /\ op' = "plugin.parseCip64"
    /\ input' = FromString(output.bytes)
    /\ output' = plugin_parseCip64(output.bytes)
    /\ UNCHANGED tx

\* ------------------------------------------------------------------------
\* The codec on its own: an instance whose fields the caller has assigned
\* (with or without a fee currency), serialized and parsed back
\* ------------------------------------------------------------------------
CodecAccessLists ==
    {NoList, List(<< >>)}
    \cup {List(<<[address |-> Checksum(A0), storageKeys |-> ks]>>) : ks \in KeysUpTo(MaxKeys)}

CodecInstances ==
    {[id |-> 0, chainId |-> c, nonce |-> n, maxPriorityFeePerGas |-> p,
      maxFeePerGas |-> f, gasPrice |-> Null, gasLimit |-> g, to |-> t, value |-> v,
      data |-> d, accessList |-> al, feeCurrency |-> fc, signature |-> sg] :
        c \in {0, 44787}, n \in {0, 1}, p \in {Null, 128}, f \in {Null, 0, 127},
        g \in {0, 21000}, t \in {NoAddr, Checksum(A0)}, v \in {0, 256},
        d \in DataUpTo(MaxDataLen) \cup {LongData}, al \in CodecAccessLists,
        fc \in {NoAddr, Checksum(A1), Checksum(A0)},
        sg \in {NoSig, Sig(1, R1, S1), Sig(0, R2, S2)}}

InitCodec ==
    /\ tx \in CodecInstances
    /\ op = "new"
    /\ input = None
    /\ output = None

NextCodec ==
    \/ GetUnsignedSerialized
    \/ GetSerialized
    \/ ParseCip64
    \/ PluginParseCip64

SpecCodec == InitCodec /\ [][NextCodec]_vars

\* the fee currency of a parsed field set, wherever the variant puts it
ParsedFeeCurrency(p) ==
    IF p.customData.present THEN p.customData.feeCurrency ELSE p.feeCurrency

\* every field the wire format carries has a value (only `to` may be absent)
ValidFieldSet(t) ==
    /\ t.chainId # Null /\ t.nonce # Null /\ t.maxPriorityFeePerGas # Null
    /\ t.maxFeePerGas # Null /\ t.gasLimit # Null /\ t.value # Null
    /\ t.data # NoData /\ ~t.accessList.isNull
    /\ getAddress(t.feeCurrency).ok

\* the parsed field set p has the field values of the instance t
SameFields(p, t) ==
    /\ p.type = CIP_64_TYPE_NUMBER
    /\ p.chainId = t.chainId
    /\ p.nonce = t.nonce
    /\ p.maxPriorityFeePerGas = t.maxPriorityFeePerGas
    /\ p.maxFeePerGas = t.maxFeePerGas
    /\ p.gasLimit = t.gasLimit
    /\ p.to = t.to
    /\ p.value = t.value
    /\ p.data = t.data
    /\ p.accessList = t.accessList
    /\ ParsedFeeCurrency(p) = t.feeCurrency

IsParse == op \in {"parseCip64", "plugin.parseCip64"}

\* C1: parsing the bytes of unsignedSerialized of a valid field set with a
\* fee currency returns exactly its field values, with no hash and no
\* signature (in both variants of the parser).
C1_UnsignedRoundTrip ==
    (IsParse /\ ValidFieldSet(tx) /\ input.raw = unsignedSerialized(tx).bytes)
        => /\ output.ok
           /\ SameFields(output.tx, tx)
           /\ output.tx.hash = NoHash
           /\ output.tx.signature.isNull

C1_Witness ==
    /\ op = "parseCip64"
    /\ ValidFieldSet(tx)
    /\ input.raw = unsignedSerialized(tx).bytes
    /\ tx.to # NoAddr
    /\ tx.chainId = 44787
    /\ tx.accessList.list # << >>
    /\ IsSigned(tx)
    /\ output.ok

\* C2: parsing the bytes of serialized of a valid, signed field set returns
\* its field values, its signature, and as hash the digest of all the bytes
\* serialized, the leading type tag 0x7b included.
C2_SignedRoundTrip ==
    (IsParse /\ ValidFieldSet(tx) /\ IsSigned(tx) /\ input.raw = serialized(tx).bytes)
        => /\ output.ok
           /\ SameFields(output.tx, tx)
           /\ output.tx.signature = tx.signature
           /\ input.raw[1] = CIP_64_TYPE_NUMBER
           /\ output.tx.hash = keccak256(serialized(tx).bytes)

C2_Witness ==
    /\ op = "plugin.parseCip64"
    /\ ValidFieldSet(tx)
    /\ IsSigned(tx)
    /\ input.raw = serialized(tx).bytes
    /\ tx.signature.r = R1
    /\ tx.data = LongData
    /\ output.ok
    /\ output.tx.hash # NoHash

\* ------------------------------------------------------------------------
\* Field sets and payloads given to create and to the parser
\* ------------------------------------------------------------------------
NumAbsent ==
    [chainId |-> Null, nonce |-> Null, maxPriorityFeePerGas |-> Null,
     maxFeePerGas |-> Null, gasPrice |-> Null, gasLimit |-> Null, value |-> Null]
NumZero ==
    [chainId |-> 44787, nonce |-> 0, maxPriorityFeePerGas |-> 0,
     maxFeePerGas |-> 0, gasPrice |-> Null, gasLimit |-> 0, value |-> 0]
NumBusy ==
    [chainId |-> 44787, nonce |-> 1, maxPriorityFeePerGas |-> 128,
     maxFeePerGas |-> 127, gasPrice |-> 5, gasLimit |-> 21000, value |-> 256]

BodyAbsent == [data |-> NoData, accessList |-> NoList]
BodyEmpty == [data |-> << >>, accessList |-> List(<< >>)]
BodyBusy == [data |-> <<0, 200>>,
             accessList |-> List(<<[address |-> Lower(A0), storageKeys |-> <<K1>>]>>)]

\* where a field set carries its fee currency: as a property of its own
\* (celo.ts) or in its customData (plugin)
FeeProperty(fc) == [feeCurrency |-> fc, customData |-> NoCustomData]
FeeCustom(fc) == [feeCurrency |-> NoAddr, customData |-> CustomData(fc)]

Fields(type, num, to, body, fee, sig) ==
    [type |-> type, chainId |-> num.chainId, nonce |-> num.nonce,
     maxPriorityFeePerGas |-> num.maxPriorityFeePerGas,
     maxFeePerGas |-> num.maxFeePerGas, gasPrice |-> num.gasPrice,
     gasLimit |-> num.gasLimit, to |-> to, value |-> num.value,
     data |-> body.data, accessList |-> body.accessList,
     feeCurrency |-> fee.feeCurrency, customData |-> fee.customData,
     hash |-> NoHash, signature |-> sig]

\* the field sets a caller of the instance's life cycle builds from
LifeObjects ==
    {Fields(ty, num, NoAddr, BodyAbsent, fee, sig) :
        ty \in {CIP_64_TYPE_NUMBER, 2}, num \in {NumAbsent, NumBusy},
        fee \in {FeeProperty(Lower(A0)), FeeCustom(Checksum(A1)), FeeProperty(NoAddr)},
        sig \in {NoSig, Sig(1, R1, S1)}}

\* the field sets given to create on its own
WireObjects ==
    {Fields(ty, num, to, body, fee, sig) :
        ty \in {CIP_64_TYPE_NUMBER, 2, Undefined},
        num \in {NumAbsent, NumZero, NumBusy},
        to \in {NoAddr, Lower(A0), BadSum(A1)},
        body \in {BodyAbsent, BodyEmpty, BodyBusy},
        fee \in {FeeProperty(fc) : fc \in {NoAddr, Checksum(A1), Lower(A0), BadSum(A1)}}
                \cup {FeeCustom(fc) : fc \in {NoAddr, Checksum(A1), Lower(A0), BadSum(A1)}},
        sig \in {NoSig, Sig(1, R1, S1), Sig(0, R2, SHigh)}}

\* thirteen decoded fields: everything zero and no fee currency
TplZero ==
    [i \in 1..13 |-> IF i = 9 THEN L(<< >>) ELSE B(<< >>)]
\* the Alfajores scenario (chainId 44787), signed
TplScenario ==
    [TplZero EXCEPT ![1] = B(toBeArray(44787)), ![10] = B(A1),
                    ![11] = B(<<1>>), ![12] = B(stripZeros(R1)), ![13] = B(stripZeros(S1))]
\* every field with a value
TplBusy ==
    << B(toBeArray(44787)), B(<<1>>), B(<<128>>), B(<<127>>), B(toBeArray(21000)),
       B(A0), B(toBeArray(256)), B(<<0, 200>>),
       L(<< L(<< B(A0), L(<< B(K1) >>) >>) >>), B(A0),
       B(<< >>), B(R2), B(S2) >>
\* a recipient of 19 bytes
TplBadTo == [TplScenario EXCEPT ![6] = B(Short)]
\* yParity 2
TplBadParity == [TplBusy EXCEPT ![11] = B(<<2>>)]
\* every field with a value, except the fee currency
TplNoFee == [TplBusy EXCEPT ![10] = B(<< >>)]

Templates == {TplZero, TplScenario, TplBusy, TplBadTo, TplBadParity, TplNoFee}

\* the type tag and the RLP of the first n fields of a template (filled up
\* with one-byte elements beyond the thirteenth)
Payload(tpl, n) ==
    <<CIP_64_TYPE_NUMBER>> \o encodeRlp(L([i \in 1..n |-> IF i <= 13 THEN tpl[i] ELSE B(<<1>>)]))

ListPayloads == {Payload(tpl, n) : tpl \in Templates, n \in 0..MaxFields}

\* payloads whose body is a byte string, is cut short or has bytes left over
OddPayloads ==
    { <<CIP_64_TYPE_NUMBER>> \o encodeRlp(B(<< >>)),
      <<CIP_64_TYPE_NUMBER>> \o encodeRlp(B(A0)),
      <<CIP_64_TYPE_NUMBER, 5>>,
      <<CIP_64_TYPE_NUMBER>>,
      <<CIP_64_TYPE_NUMBER, 197, 1>>,
      <<CIP_64_TYPE_NUMBER, 192, 0>> }

\* strings that do not start with 0x7b
OtherPayloads ==
    { << >>,
      <<2>> \o Tail(Payload(TplScenario, 10)),
      <<1>> \o Tail(Payload(TplZero, 13)),
      Tail(Payload(TplZero, 9)),
      <<122>> \o Tail(Payload(TplBusy, 10)) }

WireInputs ==
    {FromString(raw) : raw \in ListPayloads \cup OddPayloads \cup OtherPayloads}
    \cup {FromObject(f) : f \in WireObjects}
    \cup {FromEmpty}

\* ------------------------------------------------------------------------
\* Construction in the life of an instance
\* ------------------------------------------------------------------------
NoFeePayload == Payload(TplNoFee, 10)
Type2Payload == <<2>> \o Tail(Payload(TplScenario, 10))

\* what the caller may hand to create: nothing, the instance it holds, the
\* bytes it has just serialized, a payload without fee currency, a string
\* of another type, or a field set
LifeInputs ==
    {FromEmpty, FromInstance(tx), FromString(NoFeePayload), FromString(Type2Payload)}
    \cup (IF HasBytes THEN {FromString(output.bytes)} ELSE {})
    \cup {FromObject(f) : f \in LifeObjects}

\* the instance the caller holds afterwards: the one create returned, when
\* it returned one of this class
Held(made) == IF made.kind \in {"cip64", "same"} THEN made.tx ELSE tx

\* celoAlfajores.createTransaction(from)
CreateTransaction ==
    \E from \in LifeInputs : \E made \in {createTransaction(from, 1 - tx.id)} :
        /\ tx' = Held(made)
        /\ op' = "createTransaction"
        /\ input' = from
        /\ output' = made

\* CeloTransactionPlugin.create(from)
Create ==
    \E from \in LifeInputs : \E made \in {create(from, 1 - tx.id)} :
        /\ tx' = Held(made)
        /\ op' = "create"
        /\ input' = from
        /\ output' = made

\* the transaction request of a gas estimate for the instance
TxRequest(type, fee) == [type |-> type, feeCurrency |-> fee.feeCurrency, customData |-> fee.customData]
Call(request, context) == [request |-> request, context |-> context]

LifeCalls(fee) ==
    {Call(Request(m, tx.to, NoAddr), Context("estimateGas", TxRequest(CIP_64_TYPE_NUMBER, fee))) :
        m \in {"eth_estimateGas", "eth_chainId"}}

\* celoAlfajores.getRpcRequest(request, context)
GetRpcRequest ==
    \E call \in LifeCalls(FeeProperty(tx.feeCurrency)) :
        /\ op' = "getRpcRequest"
        /\ input' = call
        /\ output' = getRpcRequest(call.request, call.context)
        /\ UNCHANGED tx

\* CeloRpcInterceptorPlugin.intercept(request, context)
Intercept ==
    \E call \in LifeCalls(FeeCustom(tx.feeCurrency)) :
        /\ op' = "intercept"
        /\ input' = call
        /\ output' = intercept(call.request, call.context)
        /\ UNCHANGED tx

Next ==
    \/ SetFeeCurrency
    \/ SetSignature
    \/ GetUnsignedSerialized
    \/ GetSerialized
    \/ ParseCip64
    \/ PluginParseCip64
    \/ CreateTransaction
    \/ Create
    \/ GetRpcRequest
    \/ Intercept

Spec == Init /\ [][Next]_vars

\* ------------------------------------------------------------------------
\* The parser and create on their own: any payload, any field set
\* ------------------------------------------------------------------------
InitWire ==
    /\ tx = NewCip64Transaction(0)
    /\ op = "new"
    /\ input \in WireInputs
    /\ output = None

\* Cip64Transaction.parseCip64(data), a public static: any string
WireParseCip64 ==
    /\ input.kind = "string"
    /\ op' = "parseCip64"
    /\ output' = parseCip64(input.raw)
    /\ UNCHANGED <<tx, input>>

\* the plugin's private parseCip64, called by create alone, on a payload
\* whose first byte is 123
WirePluginParseCip64 ==
    /\ input.kind = "string"
    /\ Len(input.raw) > 0
    /\ input.raw[1] = CIP_64_TYPE_NUMBER
    /\ op' = "plugin.parseCip64"
    /\ output' = plugin_parseCip64(input.raw)
    /\ UNCHANGED <<tx, input>>

WireCreateTransaction ==
    /\ op' = "createTransaction"
    /\ output' = createTransaction(input, 1)
    /\ UNCHANGED <<tx, input>>

WireCreate ==
    /\ op' = "create"
    /\ output' = create(input, 1)
    /\ UNCHANGED <<tx, input>>

NextWire ==
    \/ WireParseCip64
    \/ WirePluginParseCip64
    \/ WireCreateTransaction
    \/ WireCreate

SpecWire == InitWire /\ [][NextWire]_vars

\* ------------------------------------------------------------------------
\* The hooks on requests on their own
\* ------------------------------------------------------------------------
Methods == {"eth_estimateGas", "eth_call", "eth_sendRawTransaction"}
Actions == {"estimateGas", "call", "broadcastTransaction"}
Types == {Undefined, Null, 0, 2, CIP_64_TYPE_NUMBER}
Fees ==
    {FeeProperty(fc) : fc \in {NoAddr, Checksum(A1), Lower(A0), BadSum(A1)}}
    \cup {FeeCustom(fc) : fc \in {NoAddr, Checksum(A1), Lower(A0)}}

Requests ==
    {NullRequest}
    \cup {Request(m, to, fc) : m \in Methods, to \in {NoAddr, Checksum(A0)},
                               fc \in {NoAddr, Checksum(A0)}}

Calls ==
    {Call(r, Context(a, TxRequest(ty, fee))) :
        r \in Requests, a \in Actions, ty \in Types, fee \in Fees}

InitHooks ==
    /\ tx = NewCip64Transaction(0)
    /\ op = "new"
    /\ input \in Calls
    /\ output = None

HookGetRpcRequest ==
    /\ op' = "getRpcRequest"
    /\ output' = getRpcRequest(input.request, input.context)
    /\ UNCHANGED <<tx, input>>

\* the plugin's request is never null, and its TransactionRequest has no
\* feeCurrency property of its own (the parameter types)
HookIntercept ==
    /\ ~input.request.isNull
    /\ input.context.transaction.feeCurrency = NoAddr
    /\ op' = "intercept"
    /\ output' = intercept(input.request, input.context)
    /\ UNCHANGED <<tx, input>>

HookPopulateTransaction ==
    /\ op' = "populateTransaction"
    /\ output' = populateTransaction(input.context.transaction)
    /\ UNCHANGED <<tx, input>>

\* the plugin's TransactionRequest has no feeCurrency property of its own
HookDetermineType ==
    /\ input.context.transaction.feeCurrency = NoAddr
    /\ op' = "determineType"
    /\ output' = [type |-> determineType(input.context.transaction)]
    /\ UNCHANGED <<tx, input>>

NextHooks ==
    \/ HookGetRpcRequest
    \/ HookIntercept
    \/ HookPopulateTransaction
    \/ HookDetermineType

SpecHooks == InitHooks /\ [][NextHooks]_vars

\* ------------------------------------------------------------------------
\* Claims
\* ------------------------------------------------------------------------
\* the decoded body of a payload (everything after its first byte)
Body(raw) == decodeRlp(Slice(raw, 1, Len(raw)))

\* a list of exactly 10 or exactly 13 elements
TenOrThirteen(object) ==
    object.isList /\ Len(object.items) \in {10, 13}

\* C3: a payload whose body decodes passes the shape check of the parser
\* only if the body is a list of exactly 10 or 13 elements; with any other
\* body (a list of another length, a byte string) the parser fails with the
\* "invalid field count" error and returns no field set.
C3_FieldCountRejection ==
    IsParse =>
        /\ output.ok => (Body(input.raw).ok /\ TenOrThirteen(Body(input.raw).result))
        /\ (Body(input.raw).ok /\ TenOrThirteen(Body(input.raw).result))
               => output.err # "invalid field count"
        /\ (Body(input.raw).ok /\ ~TenOrThirteen(Body(input.raw).result))
               => (~output.ok /\ output.err = "invalid field count" /\ output.tx = NoFields)

C3_Witness ==
    /\ op = "parseCip64"
    /\ input.raw = Payload(TplBusy, 11)
    /\ ~output.ok
    /\ output.err = "invalid field count"

\* the bytes are the type tag and a list of exactly ten fields
TenFieldEncoding(bytes) ==
    /\ Len(bytes) > 0
    /\ bytes[1] = CIP_64_TYPE_NUMBER
    /\ Body(bytes).ok
    /\ Body(bytes).result.isList
    /\ Len(Body(bytes).result.items) = 10

SerializedUnsupported ==
    (op = "serialized" /\ ~IsSigned(tx))
        => (~output.ok /\ output.err = "UNSUPPORTED_OPERATION" /\ output.bytes = << >>)

\* C4 as stated: serialized on an unsigned transaction fails with
\* UNSUPPORTED_OPERATION and returns no bytes, and unsignedSerialized on ANY
\* transaction, signed or not, returns a ten-field encoding.
C4_AsStated ==
    /\ SerializedUnsupported
    /\ op = "unsignedSerialized" => (output.ok /\ TenFieldEncoding(output.bytes))

\* C4 amended: serialized on an unsigned transaction fails with
\* UNSUPPORTED_OPERATION and returns no bytes, and unsignedSerialized on any
\* transaction whose feeCurrency is set, signed or not, returns a ten-field
\* encoding (without the signature fields).
C4_SerializedNeedsSignature ==
    /\ SerializedUnsupported
    /\ (op = "unsignedSerialized" /\ tx.feeCurrency # NoAddr)
           => (output.ok /\ TenFieldEncoding(output.bytes))

C4_Witness ==
    /\ op = "serialized"
    /\ ~IsSigned(tx)
    /\ tx.feeCurrency # NoAddr
    /\ tx.accessList.list # << >>
    /\ output.err = "UNSUPPORTED_OPERATION"

\* C5: on an instance whose feeCurrency was never set, unsignedSerialized
\* and serialized both fail and return no bytes, whatever the other fields.
C5_MissingFeeCurrencyFails ==
    (op \in {"unsignedSerialized", "serialized"} /\ tx.feeCurrency = NoAddr)
        => /\ ~output.ok
           /\ output.bytes = << >>
           /\ output.err \in {"invalid address", "UNSUPPORTED_OPERATION"}

C5_Witness ==
    /\ op = "serialized"
    /\ tx.feeCurrency = NoAddr
    /\ IsSigned(tx)
    /\ tx.chainId = 44787
    /\ tx.to # NoAddr
    /\ output.err = "invalid address"

\* the stored fee currency is unset or a checksummed 20-byte address
FeeCurrencyNormal(t) ==
    \/ t.feeCurrency = NoAddr
    \/ (t.feeCurrency.form = "checksum" /\ Len(t.feeCurrency.bytes) = 20)

\* C6: the stored feeCurrency is always unset or a validated, checksummed
\* 20-byte address, and an assignment of an invalid address fails and
\* leaves the instance as it was.
C6_FeeCurrencyInvariant ==
    /\ [](FeeCurrencyNormal(tx))
    /\ [][(op' = "set feeCurrency" /\ ~getAddress(input').ok)
             => (~output'.ok /\ tx' = tx)]_vars

C6_Witness ==
    /\ op = "set feeCurrency"
    /\ input = BadSum(A1)
    /\ ~output.ok
    /\ tx.feeCurrency = Checksum(A0)

\* the signature of what create was given
SourceSignature(o, from) ==
    IF from.kind = "object" THEN from.fields.signature
    ELSE IF from.kind = "string"
    THEN (IF o = "create" THEN plugin_parseCip64(from.raw).tx.signature
          ELSE parseCip64(from.raw).tx.signature)
    ELSE NoSig

\* C7: no operation leaves a signed instance unsigned; an instance that was
\* unsigned is signed only by the assignment of a signature; and a new
\* instance is signed only when create assigned it the signature of its
\* source.
C7_SigningStateMachine ==
    [][/\ (tx'.id = tx.id /\ IsSigned(tx)) => IsSigned(tx')
       /\ (tx'.id = tx.id /\ ~IsSigned(tx) /\ IsSigned(tx')) => op' = "set signature"
       /\ (tx'.id # tx.id /\ IsSigned(tx'))
             => /\ op' \in {"createTransaction", "create"}
                /\ tx'.signature = SourceSignature(op', input')]_vars

C7_Witness ==
    /\ op = "createTransaction"
    /\ input.kind = "instance"
    /\ IsSigned(input.inst)
    /\ IsSigned(tx)
    /\ output.kind = "same"

\* the call is a gas estimate
IsEstimate(call) ==
    /\ ~call.request.isNull
    /\ call.request.method = "eth_estimateGas"
    /\ call.context.method = "estimateGas"

\* the fee currency the context's transaction declares: its own property
\* for getRpcRequest (celo.ts), in its customData for intercept (plugin)
Declared(o, call) ==
    IF o = "intercept" THEN call.context.transaction.customData.feeCurrency
    ELSE call.context.transaction.feeCurrency

\* C8: on a gas estimate whose transaction declares fee currency X the
\* request returned carries feeCurrency X in its first argument (and is
\* otherwise as passed in); in every other case it is the request passed in.
C8_GasEstimateRewriting ==
    op \in {"getRpcRequest", "intercept"} =>
        IF IsEstimate(input) /\ Declared(op, input) # NoAddr
        THEN /\ output.feeCurrency = Declared(op, input)
             /\ output = [input.request EXCEPT !.feeCurrency = Declared(op, input)]
        ELSE output = input.request

C8_Witness ==
    /\ op = "getRpcRequest"
    /\ IsEstimate(input)
    /\ input.request.feeCurrency = NoAddr
    /\ output.feeCurrency = Lower(A0)

InstanceOf(t, p) ==
    /\ t.chainId = p.chainId
    /\ t.nonce = p.nonce
    /\ t.maxPriorityFeePerGas = p.maxPriorityFeePerGas
    /\ t.maxFeePerGas = p.maxFeePerGas
    /\ t.gasLimit = p.gasLimit
    /\ t.to = p.to
    /\ t.value = p.value
    /\ t.data = p.data
    /\ t.accessList = p.accessList
    /\ t.signature = p.signature
    /\ t.feeCurrency = ParsedFeeCurrency(p)

\* what the variant's parser makes of the string
ParseOf(o, raw) == IF o = "create" THEN plugin_parseCip64(raw) ELSE parseCip64(raw)

StartsWith123(raw) == Len(raw) > 0 /\ raw[1] = CIP_64_TYPE_NUMBER

IsCreateOfString == op \in {"createTransaction", "create"} /\ input.kind = "string"

\* a string with another first byte goes to the base class
OtherTagsDelegated ==
    (IsCreateOfString /\ ~StartsWith123(input.raw)) => output.kind = "Transaction.from"

\* C10 as stated: for EVERY string that starts with 123 and that the parser
\* accepts, create returns a Cip64Transaction with the parsed values; any
\* other string goes to the base class.
C10_AsStated ==
    /\ (IsCreateOfString /\ StartsWith123(input.raw) /\ ParseOf(op, input.raw).ok)
           => /\ output.kind = "cip64"
              /\ InstanceOf(output.tx, ParseOf(op, input.raw).tx)
    /\ OtherTagsDelegated

\* C10 amended: for every string that starts with 123 and that the parser
\* accepts with a fee currency that is not empty, create returns a
\* Cip64Transaction with the parsed values; any other string goes to the
\* base class.
C10_CreateFromRaw ==
    /\ (/\ IsCreateOfString
        /\ StartsWith123(input.raw)
        /\ ParseOf(op, input.raw).ok
        /\ ParsedFeeCurrency(ParseOf(op, input.raw).tx) # NoAddr)
           => /\ output.kind = "cip64"
              /\ InstanceOf(output.tx, ParseOf(op, input.raw).tx)
    /\ OtherTagsDelegated

C10_Witness ==
    /\ op = "create"
    /\ input.kind = "string"
    /\ input.raw = Payload(TplBusy, 13)
    /\ output.kind = "cip64"
    /\ output.tx.feeCurrency = Checksum(A0)
    /\ IsSigned(output.tx)

====
